---- MODULE Spec2Model ----
(***************************************************************************)
(* Model of the fantasy-sheet service: the Excel import (main.py           *)
(* import_sheet, utils/excel_loader.py), the card collection in MongoDB    *)
(* and the investment-suggestion aggregation (database/mongodb.py).        *)
(*                                                                         *)
(* Documents are functions from field names to values; an optional field   *)
(* that is not set is absent from the function's domain, as in the BSON    *)
(* documents and as in Python's omitted keyword arguments.                 *)
(*                                                                         *)
(* Floating point: every number of a document is held in units of 1/Prec   *)
(* and every arithmetic operation rounds its exact result down to that     *)
(* grid, as each IEEE-754 operation rounds its exact result to a double.   *)
(***************************************************************************)
EXTENDS Integers, Sequences, FiniteSets, TLC

\* ------------------------------------------------------------- bounds
Prec == 2          \* units per 1.0 of the number grid
MaxCards == 2      \* documents in a collection drawn by InitScoring
MaxRows == 3       \* rows of the service's spreadsheet
MaxSheet == 2      \* rows of a spreadsheet given to the loader alone
MaxLimit == 2      \* largest limit / page size requested
MaxGames == 3      \* largest min_historical_games requested
MaxPrice == 1      \* largest max_price requested
MaxDay == 2        \* days of the month the service clock runs through
MaxDom == 3        \* days in a month of the calendar
MaxBatch == 2      \* records in a batch given to insert_many

VARIABLES
    store,         \* the fantasy_sheets collection, in natural (insertion) order
    file,          \* raw_data/FantasySheets.xlsx as read by pandas
    now,           \* datetime.now(): [year, day]
    iPc,           \* import_sheet: "idle", "loaded" (before drop), "dropped" (before insert)
    records,       \* import_sheet: the records load_fantasy_sheet returned
    iNow,          \* the clock value the running import's load read
    iSrc,          \* the file content the running import's load read
    iStatus,       \* HTTP status of the last import_sheet response (0: none yet)
    loadExc,       \* what load_fantasy_sheet raised in the last import_sheet ("none": it returned)
    last,          \* history: <<[src, at, cards, again]>> of the last completed import, or <<>>
    sPc,           \* get_investment_suggestions: "idle", "counted", "matched"
    req,           \* its keyword arguments (absent key: argument omitted)
    results,       \* cursor.to_list of its aggregation
    sStatus,       \* "none" (running or never called), "ok" (returned), "error" (raised)
    all_cards,     \* what the last get_all returned
    gPhase,        \* history: "dropped" when the last get_all read between an import's
                   \* drop and insert, "other" when not, "none" before any get_all
    mPc,           \* insert_many: "idle", "called"
    batch,         \* its records argument
    inserted_ids,  \* the ids it returned
    mStatus,       \* "none" (running or never called), "ok" (returned), "ValueError" (raised)
    hero_id,       \* get_card_by_hero_id: its path parameter
    hCard,         \* the card find_one returned
    hStatus        \* HTTP status of its response (0: none yet)

vars == <<store, file, now, iPc, records, iNow, iSrc, iStatus, loadExc, last,
          sPc, req, results, sStatus, all_cards, gPhase,
          mPc, batch, inserted_ids, mStatus, hero_id, hCard, hStatus>>

importVars == <<file, now, iPc, records, iNow, iSrc, iStatus, loadExc, last>>
insertVars == <<mPc, batch, inserted_ids, mStatus>>
lookupVars == <<hero_id, hCard, hStatus>>
scoreVars == <<sPc, req, results, sStatus>>
getAllVars == <<all_cards, gPhase>>

\* ------------------------------------------------------------ helpers
Empty == [x \in {} |-> 0]
Has(doc, f) == f \in DOMAIN doc
U(n) == n * Prec
Range(s) == {s[i] : i \in DOMAIN s}
Take(s, n) == SubSeq(s, 1, IF n < Len(s) THEN n ELSE Len(s))
Opt(f, vals) == {Empty} \cup {f :> v : v \in vals}
\* an identifier is <<"int", n>> or <<"str", n>>, the latter the string of n's
\* digits; str(v) of an identifier:
Str(v) == <<"str", v[2]>>

RECURSIVE SumOver(_, _)
SumOver(h, keys) ==
    IF keys = {} THEN 0
    ELSE LET k == CHOOSE x \in keys : TRUE
         IN h[k] + SumOver(h, keys \ {k})

RECURSIVE SumSqOver(_, _)
SumSqOver(h, keys) ==
    IF keys = {} THEN 0
    ELSE LET k == CHOOSE x \in keys : TRUE
         IN h[k] * h[k] + SumSqOver(h, keys \ {k})

ISqrt(n) == CHOOSE r \in 0..n : r * r <= n /\ (r + 1) * (r + 1) > n

\* ------------------------------------------- aggregation expressions
Rarities == {"Legendary", "Epic", "Rare", "Common"}
FloorFields == {"floorLegendary", "floorEpic", "floorRare", "floorCommon"}

\* {"<f>": {"$lte": v}}: a document without the field does not match
Lte(doc, f, v) == Has(doc, f) /\ doc[f] <= v

\* {"$gt": ["$<f>", 0]}: a missing field compares below every number
Gt0(doc, f) == Has(doc, f) /\ doc[f] > 0

\* `if max_price:` -- None and 0 are both falsy
PriceGiven(r) == Has(r, "max_price") /\ r.max_price # 0

PriceMatch(doc, r) ==
    IF ~PriceGiven(r) THEN TRUE
    ELSE IF Has(r, "rarity") /\ r.rarity = "Legendary" THEN Lte(doc, "floorLegendary", r.max_price)
    ELSE IF Has(r, "rarity") /\ r.rarity = "Epic" THEN Lte(doc, "floorEpic", r.max_price)
    ELSE IF Has(r, "rarity") /\ r.rarity = "Rare" THEN Lte(doc, "floorRare", r.max_price)
    ELSE IF Has(r, "rarity") /\ r.rarity = "Common" THEN Lte(doc, "floorCommon", r.max_price)
    ELSE \E f \in FloorFields : Lte(doc, f, r.max_price)

\* {"historical_scores": {"$exists": True, "$ne": {}}}
HistoryMatch(doc) == Has(doc, "historical_scores") /\ doc.historical_scores # Empty

MatchConditions(doc, r) == PriceMatch(doc, r) /\ HistoryMatch(doc)

\* the $switch on "$rarity": a field of the document, not the argument
FloorPriceField(doc) ==
    IF Has(doc, "rarity") /\ doc.rarity = "Legendary" THEN "floorLegendary"
    ELSE IF Has(doc, "rarity") /\ doc.rarity = "Epic" THEN "floorEpic"
    ELSE IF Has(doc, "rarity") /\ doc.rarity = "Rare" THEN "floorRare"
    ELSE "floorCommon"

\* $addFields floor_price: a missing source field leaves floor_price unset
AddFloorPrice(doc) ==
    IF Has(doc, FloorPriceField(doc))
    THEN ("floor_price" :> doc[FloorPriceField(doc)]) @@ doc
    ELSE doc

\* {"$size": {"$objectToArray": "$historical_scores"}}
HistoricalGamesCount(doc) == Cardinality(DOMAIN doc.historical_scores)

\* $divide, $multiply, $avg, $stdDevPop on the number grid
Divide(x, y) == (x * Prec) \div y
Multiply(x, y) == (x * y) \div Prec
Avg(h) == SumOver(h, DOMAIN h) \div Cardinality(DOMAIN h)
StdDevPop(h) ==
    LET n == Cardinality(DOMAIN h)
        s == SumOver(h, DOMAIN h)
        variance == (n * SumSqOver(h, DOMAIN h) - s * s) \div (n * n * Prec)
    IN ISqrt(variance * Prec)

\* mutant: $gte in place of $gt on the floor price
EfficiencyGuardGte(doc) ==
    Gt0(doc, "averageLast2") /\ Has(doc, "floor_price") /\ doc.floor_price >= 0

\* the "if" of the score_efficiency $cond
EfficiencyGuard(doc) == Gt0(doc, "averageLast2") /\ Gt0(doc, "floor_price")

\* its "then": $divide raises on a zero divisor
EfficiencyRaises(doc) ==
    EfficiencyGuard(doc) /\ Has(doc, "floor_price") /\ doc.floor_price = 0

\* $divide yields nothing (formatted as 0) when an operand is missing
ScoreEfficiency(doc) ==
    IF EfficiencyGuard(doc)
    THEN IF Has(doc, "averageLast2") /\ Has(doc, "floor_price") /\ doc.floor_price # 0
         THEN Divide(doc.averageLast2, doc.floor_price)
         ELSE 0
    ELSE 0

HistoricalAverage(doc) ==
    IF HistoricalGamesCount(doc) > 0 THEN Avg(doc.historical_scores) ELSE 0

ScoreConsistency(doc) ==
    IF HistoricalGamesCount(doc) > 0 THEN StdDevPop(doc.historical_scores) ELSE 0

\* mutant: the volatility term multiplies instead of dividing
InvestmentScoreTimes(eff, avg, sd) ==
    IF eff > 0 /\ avg > 0
    THEN Multiply(eff, Multiply(avg, U(1) + sd))
    ELSE 0

InvestmentScore(eff, avg, sd) ==
    IF eff > 0 /\ avg > 0
    THEN Multiply(eff, Divide(avg, U(1) + sd))
    ELSE 0

\* the $addFields stages, applied to one document that passed the first $match
AddFields(doc) ==
    LET d1 == AddFloorPrice(doc)
        eff == ScoreEfficiency(d1)
        avg == HistoricalAverage(d1)
        sd == ScoreConsistency(d1)
    IN [historical_games_count |-> HistoricalGamesCount(d1),
        score_efficiency |-> eff,
        historical_average |-> avg,
        score_consistency |-> sd,
        investment_score |-> InvestmentScore(eff, avg, sd)] @@ d1

\* mutant: $gt in place of $gte
GamesMatchGt(doc, r) == doc.historical_games_count > r.min_historical_games

GamesMatch(doc, r) == doc.historical_games_count >= r.min_historical_games

\* the documents of the collection, each with its _id (its natural position)
WithId(coll) == [i \in DOMAIN coll |-> ("_id" :> i) @@ coll[i]]

Matched(coll, r) == {d \in Range(WithId(coll)) : MatchConditions(d, r)}

Computed(coll, r) == {AddFields(d) : d \in Matched(coll, r)}

Eligible(coll, r) == {d \in Computed(coll, r) : GamesMatch(d, r)}

\* mutant: sort key 1 in place of -1
Ascending(p) ==
    \A i, j \in DOMAIN p : i < j => p[i].investment_score <= p[j].investment_score

Descending(p) ==
    \A i, j \in DOMAIN p : i < j => p[i].investment_score >= p[j].investment_score

\* {"$sort": {"investment_score": -1}}: the order among equal keys is not defined
SortOrders(docs) ==
    {p \in [1..Cardinality(docs) -> docs] : Range(p) = docs /\ Descending(p)}

Aggregate(coll, r) == {Take(p, r.limit) : p \in SortOrders(Eligible(coll, r))}

PipelineRaises(coll, r) == \E d \in Matched(coll, r) : EfficiencyRaises(AddFloorPrice(d))

\* one entry of the returned list
Suggestion(card, r) ==
    [name |-> card.name,
     rarity |-> IF Has(r, "rarity") THEN r.rarity ELSE "Common",
     floor_price |-> IF Has(card, "floor_price") THEN card.floor_price ELSE 0,
     average_last_2 |-> IF Has(card, "averageLast2") THEN card.averageLast2 ELSE 0,
     historical_average |-> card.historical_average,
     score_consistency |-> card.score_consistency,
     score_efficiency |-> card.score_efficiency,
     investment_score |-> card.investment_score,
     historical_games |-> card.historical_games_count,
     historical_scores |-> card.historical_scores]

Suggestions(res, r) == [i \in DOMAIN res |-> Suggestion(res[i], r)]

\* ------------------------------------------------- suggestion requests
Requests ==
    {[min_historical_games |-> g, limit |-> l] @@ p @@ ra :
        g \in 0..MaxGames, l \in 1..MaxLimit,
        p \in Opt("max_price", {U(v) : v \in 0..MaxPrice}),
        ra \in Opt("rarity", Rarities)}

\* entry of the call and count_documents({}) (line 121); the locals are fresh.
\* The two counts are only logged, so they are not kept in the state.
SuggestCount(r) ==
    /\ sPc = "idle"
    /\ sPc' = "counted"
    /\ req' = r
    /\ results' = <<>>
    /\ sStatus' = "none"
    /\ UNCHANGED store
    /\ UNCHANGED getAllVars
    /\ UNCHANGED insertVars
    /\ UNCHANGED lookupVars
    /\ UNCHANGED importVars

\* count_documents(match_conditions) (line 157)
SuggestMatch ==
    /\ sPc = "counted"
    /\ sPc' = "matched"
    /\ UNCHANGED <<req, results, sStatus>>
    /\ UNCHANGED store
    /\ UNCHANGED getAllVars
    /\ UNCHANGED insertVars
    /\ UNCHANGED lookupVars
    /\ UNCHANGED importVars

\* mutant: the pipeline ends in an $out stage that writes the collection
SuggestAggregateOut ==
    /\ sPc = "matched"
    /\ sPc' = "idle"
    /\ sStatus' = "ok"
    /\ results' \in Aggregate(store, req)
    /\ store' = results'
    /\ UNCHANGED req
    /\ UNCHANGED getAllVars
    /\ UNCHANGED insertVars
    /\ UNCHANGED lookupVars
    /\ UNCHANGED importVars

\* collection.aggregate(pipeline), to_list and the formatting loop
SuggestAggregate ==
    /\ sPc = "matched"
    /\ sPc' = "idle"
    /\ IF PipelineRaises(store, req)
       THEN sStatus' = "error" /\ results' = <<>>
       ELSE sStatus' = "ok" /\ results' \in Aggregate(store, req)
    /\ UNCHANGED req
    /\ UNCHANGED store
    /\ UNCHANGED getAllVars
    /\ UNCHANGED insertVars
    /\ UNCHANGED lookupVars
    /\ UNCHANGED importVars

\* ------------------------------------------------------ get_all
\* FantasySheet(**result): historical_scores defaults to the empty dict
\* and hero_id is converted with str (lines 67-68)
ToFantasySheet(doc) ==
    LET d == IF Has(doc, "hero_id") THEN [doc EXCEPT !.hero_id = Str(@)] ELSE doc
    IN IF Has(d, "historical_scores") THEN d ELSE ("historical_scores" :> Empty) @@ d

\* find({}).skip(skip).limit(limit), then the conversion loop
GetAllPage(coll, skip, limit) ==
    [i \in 1..(IF Len(coll) - skip < 0 THEN 0
               ELSE IF Len(coll) - skip < limit THEN Len(coll) - skip ELSE limit)
        |-> ToFantasySheet(coll[skip + i])]

GetAll(skip, limit) ==
    /\ all_cards' = GetAllPage(store, skip, limit)
    /\ gPhase' = IF iPc = "dropped" THEN "dropped" ELSE "other"
    /\ UNCHANGED store
    /\ UNCHANGED scoreVars
    /\ UNCHANGED importVars
    /\ UNCHANGED insertVars
    /\ UNCHANGED lookupVars

\* ------------------------------------------------ load_fantasy_sheet
\* A header is a string of characters; str.lower() over the letters used here
Lower(c) == IF c = "M" THEN "m" ELSE IF c = "L" THEN "l" ELSE c

RECURSIVE LStrip(_)
LStrip(s) == IF s # <<>> /\ Head(s) = " " THEN LStrip(Tail(s)) ELSE s

RECURSIVE RStrip(_)
RStrip(s) == IF s # <<>> /\ s[Len(s)] = " " THEN RStrip(SubSeq(s, 1, Len(s) - 1)) ELSE s

\* line 19: strip, lower, ' ' -> '_', '.' -> '_'
Clean(s) ==
    [i \in DOMAIN RStrip(LStrip(s)) |->
        IF Lower(RStrip(LStrip(s))[i]) \in {" ", "."} THEN "_" ELSE Lower(RStrip(LStrip(s))[i])]

\* 'median_(last_4)'
Anchor == <<"m", "e", "d", "i", "a", "n", "_", "(", "l", "a", "s", "t", "_", "4", ")">>

\* the calendar: two months of MaxDom days; the second month ("February") has
\* its last day in leap years only
Months == 1..2
LeapYear(y) == (y % 4 = 0 /\ y % 100 # 0) \/ y % 400 = 0
DaysIn(m, y) == IF m = 2 /\ ~LeapYear(y) THEN MaxDom - 1 ELSE MaxDom
\* %Y takes four digits
IsYear(n) == n >= 1000 /\ n <= 9999
ValidDate(y, m, d) == IsYear(y) /\ m \in Months /\ d \in 1..DaysIn(m, y)

\* headers of the columns after the anchor: "m-d", "y-m-d", "a/b/c", other text
MD(m, d) == [sep |-> "-", parts |-> <<m, d>>]
YMD(y, m, d) == [sep |-> "-", parts |-> <<y, m, d>>]
SLASH(a, b, c) == [sep |-> "/", parts |-> <<a, b, c>>]
TEXT == [sep |-> "", parts |-> <<>>]

\* `date > current_date` (line 89): date is the midnight that starts its day
After(date, t) ==
    \/ date[1] > t.year
    \/ date[1] = t.year /\ date[2] > t.month
    \/ date[1] = t.year /\ date[2] = t.month /\ date[3] > t.day

\* line 81: the formats, in the order they are tried
Formats == <<"%Y-%m-%d", "%m/%d/%Y", "%d/%m/%Y", "%Y/%m/%d", "%m-%d">>

\* lines 83-94: the date header h parses to under format f at clock value t,
\* <<>> when it does not match (ValueError). strptime('%m-%d') validates the
\* day against its default year 1900.
Parse(h, f, t) ==
    LET p == h.parts
    IN IF f = "%Y-%m-%d"
       THEN IF h.sep = "-" /\ Len(p) = 3 /\ ValidDate(p[1], p[2], p[3])
            THEN <<p[1], p[2], p[3]>> ELSE <<>>
       ELSE IF f = "%m/%d/%Y"
       THEN IF h.sep = "/" /\ Len(p) = 3 /\ ValidDate(p[3], p[1], p[2])
            THEN <<p[3], p[1], p[2]>> ELSE <<>>
       ELSE IF f = "%d/%m/%Y"
       THEN IF h.sep = "/" /\ Len(p) = 3 /\ ValidDate(p[3], p[2], p[1])
            THEN <<p[3], p[2], p[1]>> ELSE <<>>
       ELSE IF f = "%Y/%m/%d"
       THEN IF h.sep = "/" /\ Len(p) = 3 /\ ValidDate(p[1], p[2], p[3])
            THEN <<p[1], p[2], p[3]>> ELSE <<>>
       ELSE IF h.sep = "-" /\ Len(p) = 2 /\ ValidDate(1900, p[1], p[2])
            THEN IF After(<<t.year, p[1], p[2]>>, t)
                 THEN <<t.year - 1, p[1], p[2]>>
                 ELSE <<t.year, p[1], p[2]>>
            ELSE <<>>

\* lines 81-99: the first format that matches wins; <<>> when none does
ResolveHeader(h, t) ==
    LET ok == {i \in DOMAIN Formats : Parse(h, Formats[i], t) # <<>>}
    IN IF ok = {} THEN <<>>
       ELSE Parse(h, Formats[CHOOSE i \in ok : \A j \in ok : i <= j], t)

\* date_columns: column -> date string, for the headers that parse
DateColumns(tab, t) ==
    [c \in {c \in DOMAIN tab.cols : ResolveHeader(tab.cols[c], t) # <<>>} |->
        ResolveHeader(tab.cols[c], t)]

\* df[['lastTournament1', 'lastTournament2']].mean(axis=1): NaN cells are skipped
AverageLast2(row) ==
    LET have == {c \in {1, 2} : c \in DOMAIN row.cells}
    IN IF have = {} THEN Empty
       ELSE "averageLast2" :> (SumOver([c \in have |-> U(row.cells[c])], have) \div Cardinality(have))

Tournament(row, c, f) == IF c \in DOMAIN row.cells THEN f :> U(row.cells[c]) ELSE Empty

\* lines 115-121: a later column overwrites an earlier one of the same date
HistoricalScores(row, dc) ==
    LET cols == {c \in DOMAIN dc : c \in DOMAIN row.cells}
        keys == {dc[c] : c \in cols}
        lastCol(k) == CHOOSE c \in cols : dc[c] = k /\ \A c2 \in cols : dc[c2] = k => c2 <= c
    IN IF keys = {} THEN Empty
       ELSE "historical_scores" :> [k \in keys |-> U(row.cells[lastCol(k)])]

\* pd.notna(row[col]) (line 111): read_excel turns an empty string into NaN
NotNa(row, f) == IF f = "name" THEN row.fields[f] # "" ELSE TRUE

\* lines 110-112: the relevant fields that have a value, as they are
RegularFields(row) ==
    [f \in {f \in DOMAIN row.fields : NotNa(row, f)} |-> row.fields[f]]

\* lines 108-121: one row's record
RowRecord(row, dc) ==
    RegularFields(row) @@ Tournament(row, 1, "lastTournament1")
        @@ Tournament(row, 2, "lastTournament2")
        @@ AverageLast2(row) @@ HistoricalScores(row, dc)

\* mutant: rows without a name are kept
NamedOrNot(rec) == TRUE

Named(rec) == Has(rec, "name")

\* float(row[orig_col]) (line 118) of a cell that holds text
RowRaises(row, dc) == \E c \in DOMAIN dc : c \in row.text

\* mutant: a table without the anchor is read as if the anchor were there
LoadExcAnchorless(tab, t) ==
    IF ~tab.exists THEN "FileNotFoundError"
    ELSE IF Len(tab.cols) < 2 THEN "IndexError"
    ELSE IF \E i \in DOMAIN tab.rows : RowRaises(tab.rows[i], DateColumns(tab, t))
    THEN "ValueError"
    ELSE "none"

\* the exception load_fantasy_sheet re-raises (lines 131-133), "none" when it returns
LoadExc(tab, t) ==
    IF ~tab.exists THEN "FileNotFoundError"
    ELSE IF Clean(tab.anchor) # Anchor THEN "KeyError"
    ELSE IF Len(tab.cols) < 2 THEN "IndexError"
    ELSE IF \E i \in DOMAIN tab.rows : RowRaises(tab.rows[i], DateColumns(tab, t))
    THEN "ValueError"
    ELSE "none"

\* the records it returns when it does not raise
LoadFantasySheet(tab, t) ==
    SelectSeq([i \in DOMAIN tab.rows |-> RowRecord(tab.rows[i], DateColumns(tab, t))], Named)

\* ------------------------------------------------------ import_sheet
\* the spreadsheet is not there (also: no load in progress)
NoSrc == [exists |-> FALSE, anchor |-> <<>>, cols |-> <<>>, rows |-> <<>>]
NoTime == [year |-> 0, month |-> 0, day |-> 0]

\* mutant: the emptiness checks are missing
NoRecordsUnchecked(recs) == FALSE

\* `if not records:` (main.py line 83, mongodb.py line 39)
NoRecords(recs) == Len(recs) = 0

\* collection.insert_many(records): appended in order
InsertMany(coll, recs) == coll \o recs

\* `except Exception` (main.py lines 99-101, 137-139): whatever was raised in
\* the try block, an HTTPException included, is answered as 500
ExceptException(raised) == 500

\* mutant: the collection is dropped before the spreadsheet is loaded
ImportLoadDropFirst ==
    /\ iPc = "idle"
    /\ loadExc' = LoadExc(file, now)
    /\ store' = <<>>
    /\ IF LoadExc(file, now) # "none" \/ NoRecords(LoadFantasySheet(file, now))
       THEN /\ iStatus' = 500
            /\ UNCHANGED <<iPc, records, iSrc, iNow>>
       ELSE /\ iPc' = "loaded"
            /\ records' = LoadFantasySheet(file, now)
            /\ iSrc' = file
            /\ iNow' = now
            /\ UNCHANGED iStatus
    /\ UNCHANGED <<file, now, last>>
    /\ UNCHANGED scoreVars
    /\ UNCHANGED getAllVars
    /\ UNCHANGED insertVars
    /\ UNCHANGED lookupVars

\* load_fantasy_sheet and the emptiness check: FileNotFoundError is answered
\* as 404, any other exception as 500, and the HTTPException(400) raised
\* inside the try is caught by `except Exception` too
ImportLoad ==
    /\ iPc = "idle"
    /\ loadExc' = LoadExc(file, now)
    /\ IF LoadExc(file, now) = "FileNotFoundError"
       THEN /\ iStatus' = 404
            /\ UNCHANGED <<iPc, records, iSrc, iNow>>
       ELSE IF LoadExc(file, now) # "none"
       THEN /\ iStatus' = ExceptException(LoadExc(file, now))
            /\ UNCHANGED <<iPc, records, iSrc, iNow>>
       ELSE IF NoRecords(LoadFantasySheet(file, now))
       THEN /\ iStatus' = ExceptException(400)
            /\ UNCHANGED <<iPc, records, iSrc, iNow>>
       ELSE /\ iPc' = "loaded"
            /\ records' = LoadFantasySheet(file, now)
            /\ iSrc' = file
            /\ iNow' = now
            /\ UNCHANGED iStatus
    /\ UNCHANGED <<file, now, last>>
    /\ UNCHANGED store
    /\ UNCHANGED scoreVars
    /\ UNCHANGED getAllVars
    /\ UNCHANGED insertVars
    /\ UNCHANGED lookupVars

\* mutant: the collection is not dropped
ImportDropSkipped ==
    /\ iPc = "loaded"
    /\ iPc' = "dropped"
    /\ UNCHANGED store
    /\ UNCHANGED <<file, now, records, iNow, iSrc, iStatus, loadExc, last>>
    /\ UNCHANGED scoreVars
    /\ UNCHANGED getAllVars
    /\ UNCHANGED insertVars
    /\ UNCHANGED lookupVars

\* db.client['fantasy_db']['fantasy_sheets'].drop()
ImportDrop ==
    /\ iPc = "loaded"
    /\ iPc' = "dropped"
    /\ store' = <<>>
    /\ UNCHANGED <<file, now, records, iNow, iSrc, iStatus, loadExc, last>>
    /\ UNCHANGED scoreVars
    /\ UNCHANGED getAllVars
    /\ UNCHANGED insertVars
    /\ UNCHANGED lookupVars

\* db.insert_many(records) and the response
ImportInsert ==
    /\ iPc = "dropped"
    /\ iPc' = "idle"
    /\ IF NoRecords(records)
       THEN /\ iStatus' = ExceptException("ValueError")
            /\ UNCHANGED <<store, last>>
       ELSE /\ iStatus' = 200
            /\ store' = InsertMany(store, records)
            /\ last' = <<[src |-> iSrc, at |-> iNow, cards |-> InsertMany(store, records),
                          again |-> /\ last # <<>>
                                    /\ last[1].src = iSrc
                                    /\ DateColumns(iSrc, last[1].at) = DateColumns(iSrc, iNow)]>>
    /\ records' = <<>>
    /\ iSrc' = NoSrc
    /\ iNow' = NoTime
    /\ UNCHANGED <<file, now, loadExc>>
    /\ UNCHANGED scoreVars
    /\ UNCHANGED getAllVars
    /\ UNCHANGED insertVars
    /\ UNCHANGED lookupVars

\* ----------------------------------------------- MongoDB.insert_many
\* mutant: one generated id for the whole batch
InsertedIdsOne(coll, recs) == <<Len(coll) + 1>>

\* result.inserted_ids: the _id generated for each record, in order
InsertedIds(coll, recs) == [i \in DOMAIN recs |-> Len(coll) + i]

\* the call and its argument
InsertManyCall(recs) ==
    /\ mPc = "idle"
    /\ Len(store) <= MaxCards
    /\ mPc' = "called"
    /\ batch' = recs
    /\ inserted_ids' = <<>>
    /\ mStatus' = "none"
    /\ UNCHANGED store
    /\ UNCHANGED importVars
    /\ UNCHANGED scoreVars
    /\ UNCHANGED getAllVars
    /\ UNCHANGED lookupVars

\* lines 39-50: ValueError before the collection is touched, or the insert
InsertManyRun ==
    /\ mPc = "called"
    /\ mPc' = "idle"
    /\ IF NoRecords(batch)
       THEN /\ mStatus' = "ValueError"
            /\ UNCHANGED <<store, inserted_ids>>
       ELSE /\ mStatus' = "ok"
            /\ store' = InsertMany(store, batch)
            /\ inserted_ids' = InsertedIds(store, batch)
    /\ UNCHANGED batch
    /\ UNCHANGED importVars
    /\ UNCHANGED scoreVars
    /\ UNCHANGED getAllVars
    /\ UNCHANGED lookupVars

\* ----------------------------------------------- get_card_by_hero_id
\* find_one returned None
NoCard == Empty

\* collection.find_one({"hero_id": hero_id}): equality is by type and value
FindOne(coll, h) ==
    LET hits == {i \in DOMAIN coll : Has(coll[i], "hero_id") /\ coll[i].hero_id = h}
    IN IF hits = {} THEN NoCard
       ELSE WithId(coll)[CHOOSE i \in hits : \A j \in hits : i <= j]

\* main.py lines 119-139: the HTTPException(404) is raised inside the try
GetCardByHeroId(h) ==
    /\ hero_id' = h
    /\ hCard' = FindOne(store, h)
    /\ hStatus' = IF FindOne(store, h) = NoCard THEN ExceptException(404) ELSE 200
    /\ UNCHANGED store
    /\ UNCHANGED importVars
    /\ UNCHANGED scoreVars
    /\ UNCHANGED getAllVars
    /\ UNCHANGED insertVars

\* ---------------------------------------------------- environment
\* the clock read by datetime.now()
Tick ==
    /\ now.day < MaxDay
    /\ now' = [now EXCEPT !.day = @ + 1]
    /\ UNCHANGED <<file, iPc, records, iNow, iSrc, iStatus, loadExc, last>>
    /\ UNCHANGED store
    /\ UNCHANGED scoreVars
    /\ UNCHANGED getAllVars
    /\ UNCHANGED insertVars
    /\ UNCHANGED lookupVars

\* raw headers of the column the export names Median (Last 4)
GoodAnchor == <<"M", "e", "d", "i", "a", "n", " ", "(", "L", "a", "s", "t", " ", "4", ")">>
DottedAnchor ==
    <<" ", "m", "e", "d", "i", "a", "n", ".", "(", "l", "a", "s", "t", ".", "4", ")", " ">>
BadAnchor == <<"M", "e", "d", "i", "a", "n", "(", "L", "a", "s", "t", " ", "4", ")">>
AnchorHeaders == {GoodAnchor, DottedAnchor, BadAnchor}

\* the columns after the anchor: the two tournament columns first
Columns == <<MD(1, MaxDay), TEXT, YMD(2025, 1, 1), MD(1, 1)>>

AllRows ==
    <<[fields |-> [name |-> "a", floorCommon |-> U(1), floorLegendary |-> U(3)],
       cells |-> (1 :> 2) @@ (2 :> 1) @@ (3 :> 3) @@ (4 :> 1), text |-> {}],
      [fields |-> [floorCommon |-> U(1)], cells |-> (1 :> 1), text |-> {}],
      [fields |-> [name |-> "", floorCommon |-> U(1)], cells |-> (2 :> 1), text |-> {}],
      [fields |-> [name |-> "b", floorCommon |-> U(0)], cells |-> (1 :> 3) @@ (3 :> 2),
       text |-> {}],
      [fields |-> [name |-> "c"], cells |-> Empty, text |-> {}]>>

\* the rows of the export
Rows == SubSeq(AllRows, 1, IF MaxRows < Len(AllRows) THEN MaxRows ELSE Len(AllRows))

\* the exports the service meets: absent, without the anchor column, with no
\* named row, and complete
Files ==
    {NoSrc,
     [exists |-> TRUE, anchor |-> BadAnchor, cols |-> Columns, rows |-> Rows],
     [exists |-> TRUE, anchor |-> GoodAnchor, cols |-> Columns, rows |-> <<AllRows[2], AllRows[3]>>],
     [exists |-> TRUE, anchor |-> GoodAnchor, cols |-> Columns, rows |-> Rows]}

\* the spreadsheet export is refreshed
ReplaceFile ==
    /\ file' \in Files \ {file}
    /\ UNCHANGED <<now, iPc, records, iNow, iSrc, iStatus, loadExc, last>>
    /\ UNCHANGED store
    /\ UNCHANGED scoreVars
    /\ UNCHANGED getAllVars
    /\ UNCHANGED insertVars
    /\ UNCHANGED lookupVars

\* -------------------------------------------------- scoring inputs
HistoryOf(s) == [k \in {<<1, d>> : d \in 1..Len(s)} |-> U(s[k[2]])]

Card(floors, avg, hist) == [name |-> "a"] @@ floors @@ avg @@ hist

\* cards that differ in their history, in averageLast2 and in their floors
ScoringCards ==
    {Card([floorLegendary |-> U(3), floorCommon |-> U(2)], "averageLast2" :> U(1), h) :
        h \in Opt("historical_scores", {HistoryOf(<<1, 1, 1>>), HistoryOf(<<0, 1, 2>>), HistoryOf(<<0, 2>>)})}
    \cup {Card([floorLegendary |-> U(3), floorCommon |-> U(2)], a, "historical_scores" :> HistoryOf(<<1, 1, 1>>)) :
            a \in Opt("averageLast2", {0 - U(1), 0})}
    \cup {Card(fp, "averageLast2" :> U(2), "historical_scores" :> HistoryOf(<<1, 1, 1>>)) :
            fp \in {[f \in FloorFields |-> IF f = "floorCommon" THEN 0 ELSE U(3)],
                    [f \in FloorFields |-> IF f = "floorCommon" THEN U(1) ELSE U(3)],
                    [f \in FloorFields \ {"floorCommon"} |->
                        IF f = "floorLegendary" THEN U(1) ELSE U(3)]}}

Collections(cards, n) == UNION {[1..k -> cards] : k \in 0..n}

\* ------------------------------------------------- specifications
InitRequest ==
    /\ sPc = "idle"
    /\ req = [min_historical_games |-> 3, limit |-> 10]
    /\ results = <<>>
    /\ sStatus = "none"
    /\ all_cards = <<>>
    /\ gPhase = "none"

InitImport ==
    /\ iPc = "idle"
    /\ records = <<>>
    /\ iNow = NoTime
    /\ iSrc = NoSrc
    /\ iStatus = 0
    /\ loadExc = "none"
    /\ last = <<>>

InitInsert ==
    /\ mPc = "idle"
    /\ batch = <<>>
    /\ inserted_ids = <<>>
    /\ mStatus = "none"

InitLookup ==
    /\ hero_id = <<"str", 0>>
    /\ hCard = NoCard
    /\ hStatus = 0

\* the service: a collection left by an earlier import, or none
Init ==
    /\ file \in Files
    /\ now = [year |-> 2025, month |-> 1, day |-> 1]
    /\ store \in {LoadFantasySheet(f, [year |-> 2024, month |-> 1, day |-> MaxDay]) :
                    f \in {f \in Files : LoadExc(f, now) = "none"}}
    /\ InitImport
    /\ InitRequest
    /\ InitInsert
    /\ InitLookup

SystemRequests ==
    {r \in Requests : /\ r.min_historical_games = 1
                      /\ r.limit = MaxLimit
                      /\ (Has(r, "rarity") => r.rarity = "Common")
                      /\ (Has(r, "max_price") => r.max_price = U(MaxPrice))}

Next ==
    \/ ImportLoad
    \/ ImportDrop
    \/ ImportInsert
    \/ Tick
    \/ ReplaceFile
    \/ \E r \in SystemRequests : SuggestCount(r)
    \/ SuggestMatch
    \/ SuggestAggregate
    \/ \E skip \in 0..1 : GetAll(skip, MaxLimit)

Spec == Init /\ [][Next]_vars

\* the scoring pipeline alone, over every small collection and every request;
\* the collection never changes here, so one call per behaviour covers them all
InitScoring ==
    /\ store \in Collections(ScoringCards, MaxCards)
    /\ file = NoSrc
    /\ now = [year |-> 2025, month |-> 1, day |-> 1]
    /\ InitImport
    /\ InitRequest
    /\ InitInsert
    /\ InitLookup

NextScoring ==
    \/ \E r \in Requests : sStatus = "none" /\ SuggestCount(r)
    \/ SuggestMatch
    \/ SuggestAggregate

SpecScoring == InitScoring /\ [][NextScoring]_vars

\* load_fantasy_sheet alone, as import_sheet calls it, over spreadsheets that
\* vary in their anchor header, their date header and their rows, at every
\* clock value of two years
Years == {2024, 2025}

Nows == {[year |-> y, month |-> m, day |-> d] : y \in Years, m \in Months, d \in 1..MaxDom}
        \cap {t \in [year : Years, month : Months, day : 1..MaxDom] :
                ValidDate(t.year, t.month, t.day)}

Headers ==
    {MD(m, d) : m \in 1..MaxDom, d \in 1..MaxDom}
    \cup {YMD(y, m, d) : y \in Years, m \in Months, d \in 1..MaxDom}
    \cup {SLASH(a, b, y) : a \in 1..MaxDom, b \in 1..MaxDom, y \in Years}
    \cup {SLASH(y, m, d) : y \in Years, m \in Months, d \in 1..MaxDom}
    \cup {TEXT}

\* rows: identifiers as numbers and as text, a name that is absent or empty,
\* a date cell that holds text
LoaderRows ==
    {[fields |-> [name |-> "a", hero_id |-> <<"int", 1>>, new_hero_yn |-> <<"int", 0>>],
      cells |-> (1 :> 2) @@ (3 :> 1), text |-> {}],
     [fields |-> [name |-> "b", hero_id |-> <<"str", 2>>], cells |-> (2 :> 1), text |-> {}],
     [fields |-> [name |-> "", hero_id |-> <<"int", 3>>], cells |-> (3 :> 1), text |-> {}],
     [fields |-> [hero_id |-> <<"int", 4>>], cells |-> (1 :> 1), text |-> {}],
     [fields |-> [name |-> "e", hero_id |-> <<"str", 5>>], cells |-> (1 :> 1), text |-> {3}]}

LoaderFiles ==
    {NoSrc}
    \cup {[exists |-> TRUE, anchor |-> GoodAnchor, cols |-> <<h>>, rows |-> <<>>] : h \in {TEXT}}
    \cup {[exists |-> TRUE, anchor |-> a, cols |-> <<MD(1, 1), TEXT, YMD(2025, 1, 1)>>, rows |-> r] :
            a \in AnchorHeaders, r \in Collections(LoaderRows, MaxSheet)}
    \cup {[exists |-> TRUE, anchor |-> GoodAnchor, cols |-> <<MD(1, 1), TEXT, h>>, rows |-> r] :
            h \in Headers, r \in Collections(LoaderRows, MaxSheet)}

InitLoader ==
    /\ file \in LoaderFiles
    /\ now \in Nows
    /\ store = <<>>
    /\ InitImport
    /\ InitRequest
    /\ InitInsert
    /\ InitLookup

NextLoader == ImportLoad

SpecLoader == InitLoader /\ [][NextLoader]_vars

\* the collection an import left, then insert_many and get_card_by_hero_id
StoredRows ==
    {[fields |-> [name |-> "a", hero_id |-> <<"int", 1>>], cells |-> (1 :> 2), text |-> {}],
     [fields |-> [name |-> "b", hero_id |-> <<"str", 2>>], cells |-> (2 :> 1), text |-> {}],
     [fields |-> [name |-> "c"], cells |-> Empty, text |-> {}]}

StoredFiles ==
    {[exists |-> TRUE, anchor |-> GoodAnchor, cols |-> Columns, rows |-> r] :
        r \in Collections(StoredRows, MaxSheet)}

Batches ==
    Collections({LoadFantasySheet(f, [year |-> 2025, month |-> 1, day |-> 1])[1] :
                    f \in {f \in StoredFiles : Len(f.rows) = 1}}, MaxBatch)

HeroIds == {<<"str", n>> : n \in 1..3}

InitStore ==
    /\ store \in {LoadFantasySheet(f, [year |-> 2025, month |-> 1, day |-> 1]) : f \in StoredFiles}
    /\ file = NoSrc
    /\ now = [year |-> 2025, month |-> 1, day |-> 1]
    /\ InitImport
    /\ InitRequest
    /\ InitInsert
    /\ InitLookup

NextStore ==
    \/ \E recs \in Batches : InsertManyCall(recs)
    \/ InsertManyRun
    \/ \E h \in HeroIds : GetCardByHeroId(h)

SpecStore == InitStore /\ [][NextStore]_vars

\* ------------------------------------------------------- properties
\* a scoring call has returned its list
Returned == sPc = "idle" /\ sStatus = "ok"

\* the floor field the rarity argument names (Common when omitted)
RarityFloorField(r) ==
    IF Has(r, "rarity") /\ r.rarity = "Legendary" THEN "floorLegendary"
    ELSE IF Has(r, "rarity") /\ r.rarity = "Epic" THEN "floorEpic"
    ELSE IF Has(r, "rarity") /\ r.rarity = "Rare" THEN "floorRare"
    ELSE "floorCommon"

\* C1: the returned list is the first min(limit, n) of the n eligible cards in
\* descending investment_score order: its length is min(limit, n), its entries
\* are distinct eligible cards, each score is >= the next, and no omitted
\* eligible card scores strictly higher than a returned one.
C1_RankedTruncation ==
    Returned =>
        LET E == Eligible(store, req)
            n == Cardinality(E)
            S == Suggestions(results, req)
        IN /\ Len(S) = (IF req.limit < n THEN req.limit ELSE n)
           /\ Range(results) \subseteq E
           /\ Cardinality(Range(results)) = Len(results)
           /\ \A i \in 1..(Len(S) - 1) : S[i].investment_score >= S[i + 1].investment_score
           /\ \A d \in E \ Range(results) : \A i \in DOMAIN S :
                 d.investment_score <= S[i].investment_score

C1_Witness ==
    /\ Returned
    /\ req.limit = 1
    /\ Len(results) = 1
    /\ \E d \in Eligible(store, req) : d.investment_score < results[1].investment_score

\* C2: the floor_price of every returned suggestion is the card's floor field
\* that matches the rarity argument (floorCommon when rarity is omitted or
\* Common).
C2_FloorPriceByRarity ==
    Returned =>
        \A i \in DOMAIN results :
            Suggestions(results, req)[i].floor_price =
                (IF Has(results[i], RarityFloorField(req))
                 THEN results[i][RarityFloorField(req)] ELSE 0)

\* C3: whenever max_price is given (0 included), every returned card passes the
\* price filter: the rarity's floor is <= max_price, or with rarity omitted one
\* of the four floors is.
C3_PriceFilter ==
    (Returned /\ Has(req, "max_price")) =>
        \A i \in DOMAIN results :
            IF Has(req, "rarity")
            THEN Lte(results[i], RarityFloorField(req), req.max_price)
            ELSE \E f \in FloorFields : Lte(results[i], f, req.max_price)

\* C4: every returned card has a non-empty historical_scores map with at least
\* min_historical_games entries, and when the limit does not truncate, every
\* stored card that passes the first match and has at least that many entries
\* is returned.
C4_HistoricalGames ==
    Returned =>
        /\ \A i \in DOMAIN results :
              /\ Has(results[i], "historical_scores")
              /\ results[i].historical_scores # Empty
              /\ Cardinality(DOMAIN results[i].historical_scores) >= req.min_historical_games
        /\ Len(results) < req.limit =>
              \A k \in DOMAIN store :
                  (/\ MatchConditions(store[k], req)
                   /\ Cardinality(DOMAIN store[k].historical_scores) >= req.min_historical_games)
                  => \E i \in DOMAIN results : results[i]._id = k

C4_Witness ==
    /\ Returned
    /\ req.min_historical_games = 2
    /\ \E i \in DOMAIN results : Cardinality(DOMAIN results[i].historical_scores) = 2

SamePositive(a, b) ==
    /\ a.score_efficiency = b.score_efficiency
    /\ a.score_efficiency > 0
    /\ a.historical_average = b.historical_average
    /\ a.historical_average > 0

\* C5 as stated: of two cards with the same positive score_efficiency and
\* historical_average, the one with the strictly larger score_consistency has
\* the strictly smaller investment_score.
C5_StrictlyDecreasing ==
    Returned =>
        LET S == Suggestions(results, req)
        IN \A i, j \in DOMAIN S :
              (SamePositive(S[i], S[j]) /\ S[i].score_consistency > S[j].score_consistency)
              => S[i].investment_score < S[j].investment_score

\* C5 as amended: the one with the strictly larger score_consistency never has
\* the larger investment_score (rounding can make the two scores equal).
C5_NonIncreasing ==
    Returned =>
        LET S == Suggestions(results, req)
        IN \A i, j \in DOMAIN S :
              (SamePositive(S[i], S[j]) /\ S[i].score_consistency > S[j].score_consistency)
              => S[i].investment_score <= S[j].investment_score

C5_Witness ==
    /\ Returned
    /\ \E i, j \in DOMAIN results :
          /\ SamePositive(results[i], results[j])
          /\ results[i].score_consistency > results[j].score_consistency
          /\ results[i].investment_score < results[j].investment_score

\* C6: the call never raises, and score_efficiency is 0 when the floor price is
\* 0 or absent or averageLast2 is <= 0 or absent, and averageLast2 / floor_price
\* otherwise.
C6_EfficiencyGuard ==
    /\ sStatus # "error"
    /\ Returned =>
          \A i \in DOMAIN results :
              LET s == Suggestions(results, req)[i]
              IN IF s.floor_price = 0 \/ s.average_last_2 <= 0
                 THEN s.score_efficiency = 0
                 ELSE s.score_efficiency = Divide(s.average_last_2, s.floor_price)

C6_Witness ==
    /\ Returned
    /\ \E i \in DOMAIN results :
          /\ Has(results[i], "floor_price")
          /\ results[i].floor_price = 0
          /\ results[i].averageLast2 > 0
          /\ results[i].score_efficiency = 0

\* C7: cards with equal investment_score are returned in stored order (and the
\* earlier stored one is kept when the limit cuts a tie), so the returned
\* sequence is a function of the snapshot and the parameters.
C7_TiesInStoredOrder ==
    Returned =>
        /\ \A i, j \in DOMAIN results :
              (i < j /\ results[i].investment_score = results[j].investment_score)
              => results[i]._id < results[j]._id
        /\ \A d \in Eligible(store, req) \ Range(results) : \A i \in DOMAIN results :
              d.investment_score = results[i].investment_score => results[i]._id < d._id

\* C8: no step of a scoring call changes the stored collection.
C8_StoreUnchanged == [][(sPc' # sPc) => store' = store]_vars

C8_Witness ==
    /\ Returned
    /\ results # <<>>
    /\ store # <<>>
    /\ iPc = "loaded"

\* C9: between the drop and the insert of an import the collection is empty
\* although the records to insert are not, and a get_all that reads in that
\* window returns nothing.
C9_EmptyBetweenDropAndInsert ==
    /\ iPc = "dropped" => (store = <<>> /\ records # <<>>)
    /\ gPhase = "dropped" => all_cards = <<>>

C9_Witness ==
    /\ iPc = "dropped"
    /\ gPhase = "dropped"
    /\ all_cards = <<>>
    /\ records # <<>>
    /\ last # <<>>
    /\ last[1].cards # <<>>

\* the insert of an import of the source the last completed import read
SecondImport ==
    /\ iPc = "dropped"
    /\ iPc' = "idle"
    /\ iStatus' = 200
    /\ last # <<>>
    /\ last[1].src = iSrc

\* C10 as stated: a second import of the same unchanged source leaves the same
\* set of cards as the first.
C10_Idempotent == [][SecondImport => Range(store') = Range(last[1].cards)]_vars

\* C10 as amended: it does when every month-day header resolves to the same
\* date at both imports.
C10_IdempotentSameDates ==
    [][(SecondImport /\ DateColumns(iSrc, last[1].at) = DateColumns(iSrc, iNow))
        => store' = last[1].cards]_vars

C10_Witness ==
    /\ iPc = "idle"
    /\ last # <<>>
    /\ last[1].again
    /\ last[1].cards # <<>>
    /\ store = last[1].cards
    /\ \E c \in DOMAIN last[1].src.cols :
          last[1].src.cols[c].sep = "-" /\ Len(last[1].src.cols[c].parts) = 2

\* an insert_many call has run to its end
InsertRan == mPc = "called" /\ mPc' = "idle"

\* C11: insert_many of an empty list raises ValueError and leaves the
\* collection as it was; of a non-empty list it stores the records and returns
\* one distinct generated id per record, in order.
C11_InsertMany ==
    [][InsertRan =>
        IF Len(batch) = 0
        THEN /\ mStatus' = "ValueError"
             /\ store' = store
             /\ inserted_ids' = <<>>
        ELSE /\ mStatus' = "ok"
             /\ Len(inserted_ids') = Len(batch)
             /\ Cardinality(Range(inserted_ids')) = Len(batch)
             /\ Len(store') = Len(store) + Len(batch)
             /\ \A i \in DOMAIN batch : store'[inserted_ids'[i]] = batch[i]]_vars

C11_Witness ==
    /\ mPc = "idle"
    /\ mStatus = "ValueError"
    /\ batch = <<>>
    /\ inserted_ids = <<>>
    /\ store # <<>>

\* C12: a get_card_by_hero_id that finds no card answers 404.
C12_NotFoundIs404 == (hStatus # 0 /\ hCard = NoCard) => hStatus = 404

\* import_sheet has called load_fantasy_sheet
Loaded == iStatus # 0 \/ iPc = "loaded"

\* C13: for a spreadsheet whose cleaned headers lack the anchor, whatever its
\* rows, load_fantasy_sheet raises (KeyError) and no record is returned.
C13_AnchorRequired ==
    (Loaded /\ file.exists /\ Clean(file.anchor) # Anchor) =>
        /\ loadExc = "KeyError"
        /\ records = <<>>
        /\ iPc = "idle"
        /\ iStatus = 500

C13_Witness ==
    /\ Loaded
    /\ file.exists
    /\ Clean(file.anchor) # Anchor
    /\ Len(file.rows) = MaxSheet
    /\ \E i \in DOMAIN file.rows : Has(file.rows[i].fields, "name")
    /\ loadExc = "KeyError"

\* the rows of the loaded file whose date cells all convert to float
Convertible(tab, t) ==
    SelectSeq(tab.rows, LAMBDA row : ~RowRaises(row, DateColumns(tab, t)))

\* C14: a row with a date cell that does not convert to float is skipped and
\* nothing else: the load does not raise and returns the records of the other
\* named rows.
C14_RowSkipped ==
    (Loaded /\ file.exists /\ Clean(file.anchor) = Anchor /\ Len(file.cols) >= 2) =>
        /\ loadExc = "none"
        /\ iPc = "loaded" =>
              records = LoadFantasySheet([file EXCEPT !.rows = Convertible(file, now)], now)

\* the name of a card is there and not empty
HasName(doc) == Has(doc, "name") /\ doc.name # ""

\* C15: every record load_fantasy_sheet returned and every stored card has a
\* non-empty name.
C15_NameRequired ==
    /\ \A i \in DOMAIN records : HasName(records[i])
    /\ \A i \in DOMAIN store : HasName(store[i])

C15_Witness ==
    /\ iPc = "idle"
    /\ iStatus = 200
    /\ last # <<>>
    /\ store = last[1].cards
    /\ store # <<>>
    /\ \E i \in DOMAIN last[1].src.rows : ~Has(last[1].src.rows[i].fields, "name")
    /\ \E i \in DOMAIN last[1].src.rows :
          Has(last[1].src.rows[i].fields, "name") /\ last[1].src.rows[i].fields.name = ""
    /\ Len(store) < Len(last[1].src.rows)

\* a header in bare month-day form
IsMonthDay(h) == h.sep = "-" /\ Len(h.parts) = 2

\* C16: a month-day header whose date exists in the current year and is not
\* after now resolves to it; one whose current-year date is after now resolves
\* to the same month and day of the previous year (when that date exists); no
\* month-day header resolves to a date after now; and every header resolves by
\* the first of the five formats, in their order, that matches it.
C16_MonthDayResolution ==
    (Loaded /\ loadExc = "none") =>
        \A c \in DOMAIN file.cols :
            LET h == file.cols[c]
                p == h.parts
            IN /\ IsMonthDay(h) =>
                    /\ (ValidDate(now.year, p[1], p[2]) /\ ~After(<<now.year, p[1], p[2]>>, now))
                          => ResolveHeader(h, now) = <<now.year, p[1], p[2]>>
                    /\ (/\ ValidDate(now.year, p[1], p[2])
                        /\ After(<<now.year, p[1], p[2]>>, now)
                        /\ ValidDate(now.year - 1, p[1], p[2]))
                          => ResolveHeader(h, now) = <<now.year - 1, p[1], p[2]>>
                    /\ ResolveHeader(h, now) # <<>> => ~After(ResolveHeader(h, now), now)
               /\ \A i \in DOMAIN Formats :
                     (/\ Parse(h, Formats[i], now) # <<>>
                      /\ \A j \in 1..(i - 1) : Parse(h, Formats[j], now) = <<>>)
                     => ResolveHeader(h, now) = Parse(h, Formats[i], now)

\* C17: every record load_fantasy_sheet returned carries its hero_id and its
\* new_hero_yn as strings, so that once the records are stored a find_one with
\* the string form of a record's hero_id finds a card.
C17_HeroIdIsString ==
    \A i \in DOMAIN records :
        /\ Has(records[i], "hero_id") =>
              /\ records[i].hero_id[1] = "str"
              /\ FindOne(InsertMany(<<>>, records), Str(records[i].hero_id)) # NoCard
        /\ Has(records[i], "new_hero_yn") => records[i].new_hero_yn[1] = "str"

\* C18: the collection changes only in the drop and the insert of an import
\* that loaded a non-empty record list; an import_sheet call that ends at the
\* load leaves it as it was.
C18_FailedImportKeepsStore ==
    [][/\ (store' # store) => (iPc \in {"loaded", "dropped"} /\ records # <<>>)
       /\ (iPc = "idle" /\ iPc' = "idle") => store' = store]_vars

C18_Witness ==
    /\ iPc = "idle"
    /\ iStatus = 404
    /\ loadExc = "FileNotFoundError"
    /\ last # <<>>
    /\ store = last[1].cards
    /\ store # <<>>

====
